---- MODULE Spec2Model ----
(***************************************************************************)
(* Verification model of the voice-platform application (src/app.py) and   *)
(* of the completion gateway the specification describes                   *)
(* (complete / ask_ai, spec.md section 4.1).                               *)
(*                                                                         *)
(* The specifications share the module's variables:                        *)
(*   SpecGateway  one call of complete(prompt, temperature, max_retries,   *)
(*                image), one step per provider attempt;                   *)
(*   SpecJson     browser sessions working on messages.json and            *)
(*                users.json through load_json / save_json;                *)
(*   SpecConv     browser sessions working on the SQLite conversations     *)
(*                table;                                                   *)
(*   SpecSend     the post composer of the role feeds;                     *)
(*   SpecNotif    follow and reaction notifications;                       *)
(*   SpecSort     sort_messages_for_user;                                  *)
(*   SpecChat     one browser session through main: login, logout, the     *)
(*                views and the private conversations;                     *)
(*   SpecDb       calls of send_db_message;                                *)
(*   SpecAdmin    the super admin's session and the message cards;         *)
(*   SpecBackup   save_json's backups and initialize_data's restore.       *)
(* Each specification leaves the other parts' variables at their initial   *)
(* values.                                                                 *)
(***************************************************************************)
EXTENDS Integers, Sequences, FiniteSets, TLC

VARIABLES
    \* ---- completion gateway (one call of complete) ----
    configured,     \* set of providers whose handle is present
    image,          \* TRUE when the request carries an image
    max_retries,    \* the call's max_retries argument
    gstate,         \* position in the per-call state machine
    attempt,        \* 1-based index of the next attempt of the current provider
    calls,          \* sequence of provider attempts made so far, in order
    delays,         \* per provider: number of retry delays slept
    text,           \* returned text (None before the call returns)
    source,         \* returned source tag (None before the call returns)
    \* ---- JSON data layer ----
    users,          \* users.json: username -> [role, name]
    msgfile,        \* messages.json "messages": sequence of message records
    nextId,         \* next fresh message id (secrets.token_hex stand-in)
    nops,           \* number of data-layer operations started so far
    spc,            \* per session: "idle" or "loaded" (between load and save)
    sop,            \* per session: the operation in progress
    snap,           \* per session: the in-memory copy load_json returned
    ret,            \* return value of the operation that finished last
    author,         \* history: message id -> account (username) that sent it
    acked,          \* history: ids whose create_message returned True
    removed,        \* history: records of delete_message calls that removed
    revealed,       \* users.json "revealed_to": username -> set of usernames
    notifs,         \* notifications.json: username -> sequence of notifications
    notified,       \* history: who acted for each follow / reaction notification
    \* ---- SQLite conversations ----
    conversations,  \* conversations table: sequence of rows
    nextConv,       \* next fresh conversation id
    cpc,            \* per session: "idle" or "selected" (between SELECT and INSERT)
    cargs,          \* per session: normalized (ua, ub) and SELECT result of its call
    creturns,       \* history: [ua, ub, id] of every conversation id returned
    follows,        \* follows table: set of <<follower, followee>> rows
    \* ---- st.session_state of the post composer ----
    ss_recipient,   \* per session: value under the key recipient_<role>_<username>
    ss_is_anon,     \* per session: value under the key is_anon_<role>_<username>
    \* ---- sort_messages_for_user ----
    feed,           \* the messages argument: a list get_messages returned
    sorted_feed,    \* the list returned (None before the call)
    \* ---- login, views and private messages ----
    pwhash,         \* users.json "password": username -> stored hash
    authenticated,  \* per session: st.session_state.authenticated
    user_info,      \* per session: st.session_state.user_info
    login_form,     \* per session: the username and password last submitted
    current_view,   \* per session: st.session_state['current_view']
    profile_view_user,  \* per session: st.session_state['profile_view_user']
    open_conversation,  \* per session: st.session_state['open_conversation']
    messages_db,    \* messages_db table: sequence of rows
    db_call,        \* the last send_db_message call and its outcome
    \* ---- data files and their backups ----
    data_files,     \* data file -> content on disk
    backups,        \* data file -> contents of its backups, oldest first
    bpc,            \* per session: "idle" or "written" (inside save_json)
    bargs,          \* per session: file and data of the save in progress
    last_saved,     \* data file -> content of the last save_json write
    nsaves          \* number of save_json calls started so far

gwVars   == <<configured, image, max_retries, gstate, attempt, calls, delays,
             text, source>>
jsonVars == <<users, msgfile, nextId, nops, spc, sop, snap, ret, author, acked,
             removed, revealed, notifs, notified>>
convVars == <<conversations, nextConv, cpc, cargs, creturns, follows>>
sendVars == <<ss_recipient, ss_is_anon>>
sortVars == <<feed, sorted_feed>>
chatVars == <<pwhash, authenticated, user_info, login_form, current_view,
             profile_view_user, open_conversation, messages_db, db_call>>
backupVars == <<data_files, backups, bpc, bargs, last_saved, nsaves>>
vars     == <<gwVars, jsonVars, convVars, sendVars, sortVars, chatVars, backupVars>>

\* What the actions of one part leave alone: the variables of the other parts.
nonGwVars   == <<jsonVars, convVars, sendVars, sortVars, chatVars, backupVars>>
nonJsonVars == <<gwVars, convVars, sendVars, sortVars, chatVars, backupVars>>
nonConvVars == <<gwVars, jsonVars, sendVars, sortVars, chatVars, backupVars>>
nonSendVars == <<gwVars, jsonVars, convVars, sortVars, chatVars, backupVars>>
nonSortVars == <<gwVars, jsonVars, convVars, sendVars, chatVars, backupVars>>
nonChatVars == <<gwVars, jsonVars, convVars, sendVars, sortVars, backupVars>>
nonBackupVars == <<gwVars, jsonVars, convVars, sendVars, sortVars, chatVars>>

None == "None"

(***************************************************************************)
(* Bounds of the model                                                     *)
(***************************************************************************)
MaxRetriesArg == 2      \* max_retries ranges over 0..MaxRetriesArg
MaxOps        == 3      \* data-layer operations started per behaviour
MaxConvRows   == 3      \* conversation rows inserted per behaviour
MaxFeed       == 3      \* messages of a feed handed to sort_messages_for_user
MaxDbRows     == 1      \* rows inserted into messages_db per behaviour
MaxSaves      == 3      \* save_json calls started per behaviour

(***************************************************************************)
(* COMPLETION GATEWAY                                                      *)
(***************************************************************************)
ProviderA == "A"        \* vision-capable primary provider
ProviderB == "B"        \* secondary, text-only
ProviderC == "C"        \* tertiary, text-only, single attempt
Providers == {ProviderA, ProviderB, ProviderC}

\* The fixed message returned when every provider failed.
Sentinel == "all AI services failed"
\* The fixed message of the image short-circuit.
ImageMsg == "image analysis requires vision"
ErrorTag == "error"

\* Texts a provider may produce.  A provider is an external service and may
\* answer anything, the wording of the sentinel included.
ProviderTexts == {"generated", Sentinel}

GatewayStates ==
    {"START", "TRY_PRIMARY", "TRY_SECONDARY", "TRY_TERTIARY", "DONE", "ERROR"}

Terminal == gstate \in {"DONE", "ERROR"}

\* Mutant: a provider is tried whether or not its handle is present.
IsConfiguredAlways(p) == p \in Providers

\* "is this handle present", checked once at call time.
IsConfigured(p) == p \in configured

\* Mutant: a loop that tries once before it looks at max_retries.
LoopRunsAtLeastOnce(p) == IsConfigured(p)

\* A retry loop over range(max_retries) runs at least once.
LoopRuns(p) == IsConfigured(p) /\ max_retries >= 1

\* Where control goes once Provider B is unconfigured or exhausted.
AfterSecondary ==
    IF IsConfigured(ProviderC)
    THEN [st |-> "TRY_TERTIARY", text |-> None, source |-> None]
    ELSE [st |-> "ERROR", text |-> Sentinel, source |-> ErrorTag]

\* Mutant: no image hard stop, an image request falls through to Provider B.
AfterPrimaryNoImageStop ==
    IF IsConfigured(ProviderB) /\ max_retries >= 1
    THEN [st |-> "TRY_SECONDARY", text |-> None, source |-> None]
    ELSE AfterSecondary

\* Where control goes once Provider A is unconfigured or exhausted: the image
\* hard stop comes before any text-only provider.
AfterPrimary ==
    IF image
    THEN [st |-> "ERROR", text |-> ImageMsg, source |-> ErrorTag]
    ELSE IF LoopRuns(ProviderB)
         THEN [st |-> "TRY_SECONDARY", text |-> None, source |-> None]
         ELSE AfterSecondary

\* Mutant: the final failure is tagged with the last provider tried.
AfterTertiaryTagged == [st |-> "ERROR", text |-> Sentinel, source |-> ProviderC]

\* Where control goes once Provider C failed its single attempt.
AfterTertiary == [st |-> "ERROR", text |-> Sentinel, source |-> ErrorTag]

FallThrough(p) ==
    CASE p = ProviderA -> AfterPrimary
      [] p = ProviderB -> AfterSecondary
      [] p = ProviderC -> AfterTertiary

StateOf(p) ==
    CASE p = ProviderA -> "TRY_PRIMARY"
      [] p = ProviderB -> "TRY_SECONDARY"
      [] p = ProviderC -> "TRY_TERTIARY"

\* Mutant: one attempt too many in the retry loops.
BudgetOffByOne(p) == IF p = ProviderC THEN 1 ELSE max_retries + 1

\* Attempt budget of a provider: max_retries for A and B, one for C.
Budget(p) == IF p = ProviderC THEN 1 ELSE max_retries

GoTo(target) ==
    /\ gstate' = target.st
    /\ text' = target.text
    /\ source' = target.source
    /\ attempt' = 1

\* START: enter the primary provider's loop, or fall past it.
Start ==
    /\ gstate = "START"
    /\ GoTo(IF LoopRuns(ProviderA)
            THEN [st |-> "TRY_PRIMARY", text |-> None, source |-> None]
            ELSE AfterPrimary)
    /\ UNCHANGED <<configured, image, max_retries, calls, delays>>
    /\ UNCHANGED nonGwVars

\* One attempt of provider p that succeeds: return its text under its tag.
AttemptOk(p, t) ==
    /\ gstate = StateOf(p)
    /\ calls' = Append(calls, [provider |-> p, attempt |-> attempt, ok |-> TRUE,
                               text |-> t])
    /\ gstate' = "DONE"
    /\ text' = t
    /\ source' = p
    /\ UNCHANGED <<configured, image, max_retries, attempt, delays>>
    /\ UNCHANGED nonGwVars

\* Mutant: Provider C's single attempt is not guarded, its exception escapes.
AttemptFailUncaught(p) ==
    /\ gstate = StateOf(p)
    /\ calls' = Append(calls, [provider |-> p, attempt |-> attempt, ok |-> FALSE,
                               text |-> None])
    /\ IF p = ProviderC
       THEN /\ gstate' = "RAISED"
            /\ UNCHANGED <<text, source, attempt, delays>>
       ELSE IF attempt < Budget(p)
            THEN /\ delays' = [delays EXCEPT ![p] = @ + 1]
                 /\ attempt' = attempt + 1
                 /\ UNCHANGED <<gstate, text, source>>
            ELSE /\ GoTo(FallThrough(p))
                 /\ UNCHANGED delays
    /\ UNCHANGED <<configured, image, max_retries>>
    /\ UNCHANGED nonGwVars

\* Mutant: the retry loop starts the next attempt without sleeping.
AttemptFailNoDelay(p) ==
    /\ gstate = StateOf(p)
    /\ calls' = Append(calls, [provider |-> p, attempt |-> attempt, ok |-> FALSE,
                               text |-> None])
    /\ IF attempt < Budget(p)
       THEN /\ attempt' = attempt + 1
            /\ UNCHANGED <<gstate, text, source, delays>>
       ELSE /\ GoTo(FallThrough(p))
            /\ UNCHANGED delays
    /\ UNCHANGED <<configured, image, max_retries>>
    /\ UNCHANGED nonGwVars

\* One attempt of provider p that raises: the exception is caught and logged;
\* retry after the fixed delay while attempts remain, else fall through.
AttemptFail(p) ==
    /\ gstate = StateOf(p)
    /\ calls' = Append(calls, [provider |-> p, attempt |-> attempt, ok |-> FALSE,
                               text |-> None])
    /\ IF attempt < Budget(p)
       THEN /\ delays' = [delays EXCEPT ![p] = @ + 1]
            /\ attempt' = attempt + 1
            /\ UNCHANGED <<gstate, text, source>>
       ELSE /\ GoTo(FallThrough(p))
            /\ UNCHANGED delays
    /\ UNCHANGED <<configured, image, max_retries>>
    /\ UNCHANGED nonGwVars

GatewayInit ==
    /\ configured \in SUBSET Providers
    /\ image \in BOOLEAN
    /\ max_retries \in 0..MaxRetriesArg
    /\ gstate = "START"
    /\ attempt = 1
    /\ calls = <<>>
    /\ delays = [p \in Providers |-> 0]
    /\ text = None
    /\ source = None

GatewayIdle ==
    /\ configured = {}
    /\ image = FALSE
    /\ max_retries = 0
    /\ gstate = "START"
    /\ attempt = 1
    /\ calls = <<>>
    /\ delays = [p \in Providers |-> 0]
    /\ text = None
    /\ source = None

GatewayNext ==
    \/ Start
    \/ \E p \in Providers, t \in ProviderTexts : AttemptOk(p, t)
    \/ \E p \in Providers : AttemptFail(p)

\* ---- what the log of attempts says ----
CallsOf(p)   == {i \in 1..Len(calls) : calls[i].provider = p}
FailedOf(p)  == {i \in CallsOf(p) : ~calls[i].ok}
Succeeded(p) == \E i \in CallsOf(p) : calls[i].ok
NoSuccess    == \A i \in 1..Len(calls) : ~calls[i].ok
\* Provider p is unconfigured, or each of its N attempts was made and failed.
Exhausted(p) ==
    \/ p \notin configured
    \/ (~Succeeded(p) /\ Cardinality(CallsOf(p)) = max_retries)
\* The returned text is the one the last attempt, an attempt of p, produced.
ProducedBy(p) ==
    /\ Len(calls) > 0
    /\ calls[Len(calls)].ok
    /\ calls[Len(calls)].provider = p
    /\ calls[Len(calls)].text = text
\* Provider p was tried, never succeeded, and control has left it.
LeftByFailure(p) == CallsOf(p) # {} /\ ~Succeeded(p) /\ gstate # StateOf(p)
ProviderRank == (ProviderA :> 1) @@ (ProviderB :> 2) @@ (ProviderC :> 3)

\* C1: complete never raises and always terminates with a pair (text, source)
\* whose source is the name of a configured provider or "error", whatever the
\* configured providers, the outcome of each attempt and the image.
C1_AlwaysReturnsPair ==
    /\ <>Terminal
    /\ [](gstate \in GatewayStates)
    /\ [](Terminal => (text # None /\ source \in configured \cup {ErrorTag}))

\* C1 witness: the call returned "error" after attempts of configured
\* providers raised.
C1_Witness ==
    /\ gstate = "ERROR"
    /\ source = ErrorTag
    /\ FailedOf(ProviderA) # {} /\ FailedOf(ProviderB) # {} /\ FailedOf(ProviderC) # {}

\* Order of the attempts within one call: A before B before C, B only after
\* A is unconfigured or exhausted and no image is attached, C only after B is
\* unconfigured or exhausted, no attempt of an unconfigured provider.
AttemptOrder ==
    /\ \A i, j \in 1..Len(calls) :
          i < j => ProviderRank[calls[i].provider] <= ProviderRank[calls[j].provider]
    /\ CallsOf(ProviderB) # {} => (~image /\ Exhausted(ProviderA))
    /\ CallsOf(ProviderC) # {} =>
          (~image /\ Exhausted(ProviderA) /\ Exhausted(ProviderB))
    /\ \A p \in Providers : p \notin configured => CallsOf(p) = {}

C3_ImageShortCircuit ==
    image =>
        /\ CallsOf(ProviderB) = {} /\ CallsOf(ProviderC) = {}
        /\ (Terminal /\ ~Succeeded(ProviderA)) =>
              (gstate = "ERROR" /\ text = ImageMsg /\ source = ErrorTag)

\* C3 witness: an image request whose primary attempts failed, with B and C
\* configured and untouched.
C3_Witness ==
    /\ image /\ Terminal /\ text = ImageMsg
    /\ FailedOf(ProviderA) # {}
    /\ ProviderB \in configured /\ ProviderC \in configured

\* C4: for max_retries = N >= 1, A and B each receive at most N attempts and
\* exactly N when they were tried and all their attempts failed; C receives at
\* most one attempt whatever N is.
C4_RetryBudget ==
    /\ Cardinality(CallsOf(ProviderC)) <= 1
    /\ max_retries >= 1 =>
          \A p \in {ProviderA, ProviderB} :
              /\ Cardinality(CallsOf(p)) <= max_retries
              /\ LeftByFailure(p) => Cardinality(CallsOf(p)) = max_retries

\* C4 witness: max_retries = 1, every provider tried exactly once and failed.
C4_Witness ==
    /\ max_retries = 1 /\ gstate = "ERROR"
    /\ \A p \in Providers : Cardinality(FailedOf(p)) = 1

C7_RetryDelays ==
    /\ \A i \in 1..Len(calls) :
          calls[i].ok =>
              /\ i = Len(calls)
              /\ gstate = "DONE" /\ source = calls[i].provider
              /\ delays[calls[i].provider] = calls[i].attempt - 1
    /\ (Len(calls) = 2 /\ calls[1].provider = ProviderA /\ ~calls[1].ok
            /\ calls[2].provider = ProviderA /\ calls[2].ok) =>
          /\ source = ProviderA
          /\ delays = [p \in Providers |-> IF p = ProviderA THEN 1 ELSE 0]

\* C7 witness: max_retries = 2, the primary failed once and then succeeded.
C7_Witness ==
    /\ max_retries = 2 /\ gstate = "DONE" /\ source = ProviderA
    /\ Len(calls) = 2 /\ ~calls[1].ok /\ calls[2].ok
(***************************************************************************)
(* JSON DATA LAYER: users.json and messages.json                           *)
(***************************************************************************)
SuperAdmin == "superadmin"
Usernames  == {"kim", "sam"}         \* usernames typed into Create New User
Names      == {"kim", "Lee"}         \* full names typed into Create New User
Roles      == {"student", "teacher", "senator", "admin"}
Recipients == {"all_school", "senate"}
Emojis     == {"like"}
Sessions   == {"s1", "s2"}           \* concurrent browser sessions
Accounts   == Usernames \cup {SuperAdmin, "ann"}   \* every username of the model

RetTrue  == "True"
RetFalse == "False"

NoOp == [kind |-> "none", mid |-> 0, user_id |-> None, role |-> None,
         account |-> None, emoji |-> None, msg |-> None]

Range(seq) == {seq[i] : i \in 1..Len(seq)}
Ids(file)  == {file[i].id : i \in 1..Len(file)}

\* users.json: the super admin account initialize_data creates, and two
\* accounts the super admin created through Create New User.  kim's full
\* name is "Lee"; sam's is "Lee" too, or "kim" (another user's username).
UserTables ==
    {(SuperAdmin :> [role |-> "super_admin", name |-> "Super Administrator"])
        @@ ("kim" :> [role |-> rk, name |-> "Lee"])
        @@ ("sam" :> [role |-> rs, name |-> ns]) :
        rk \in {"student", "teacher"}, rs \in {"student", "teacher"}, ns \in Names}

\* The user_id the role feeds hand to render_message_card: the username for
\* students and the super admin, the display name for the other roles.
UserId(u) ==
    IF users[u].role \in {"student", "super_admin"} THEN u ELSE users[u].name

\* The name get_or_create_anonymous_name keeps under the key it is given: a
\* username, or whatever else the caller passes as user_id.
AnonName(user_id) ==
    CASE user_id = "kim" -> "ANON_4B1D"
      [] user_id = "sam" -> "ANON_9C2E"
      [] user_id = "ann" -> "ANON_77A0"
      [] user_id = "Lee" -> "ANON_1F3C"
      [] OTHER           -> "ANON_E5D2"

\* users.get(key, {}).get('name', key)
RealName(key) == IF key \in DOMAIN users THEN users[key].name ELSE key

\* get_revealed_list(username) and has_revealed_to(viewed, viewer)
get_revealed_list(username) ==
    IF username \in DOMAIN users THEN revealed[username] ELSE {}
has_revealed_to(viewed_username, viewer_username) ==
    viewer_username \in get_revealed_list(viewed_username)

\* The actor_display of a follow or reaction notification: the real name when
\* the actor has revealed to the recipient, the anonymous name otherwise.
ActorDisplay(actor, recipient) ==
    IF has_revealed_to(actor, recipient) THEN RealName(actor) ELSE AnonName(actor)

\* The keys of users.json in the order of the file (insertion order).
UserOrder == <<SuperAdmin, "ann", "kim", "sam">>

\* add_reaction's owner of a message: the sender_id when it is a username,
\* else the first user whose name is the sender_id, else None.
OwnerOf(sender_id) ==
    IF sender_id \in DOMAIN users THEN sender_id
    ELSE LET named == {i \in 1..Len(UserOrder) :
                          /\ UserOrder[i] \in DOMAIN users
                          /\ users[UserOrder[i]].name = sender_id}
         IN  IF named = {} THEN None
             ELSE UserOrder[CHOOSE i \in named : \A j \in named : i <= j]

\* The notification add_reaction and follow_user append.
Notification(type, actor, recipient, message_id, emoji) ==
    [type          |-> type,
     message_id    |-> message_id,
     text          |-> <<ActorDisplay(actor, recipient), type, emoji>>,
     actor         |-> actor,
     actor_display |-> ActorDisplay(actor, recipient),
     read          |-> FALSE]

\* History record of a notification: the account that acted, what the
\* notification shows, and whether that account had revealed to the recipient.
Notified(type, account, actor, recipient) ==
    [type     |-> type,
     to       |-> recipient,
     account  |-> account,
     actor    |-> actor,
     display  |-> ActorDisplay(actor, recipient),
     revealed |-> recipient \in revealed[account]]

\* Mutant: every send helper passes the checkbox's value on as is_anonymous.
NewMessageBoxOnly(u, recipient, anon_box, id) ==
    LET role      == users[u].role
        sender_id == IF role = "student" /\ recipient # "senate"
                     THEN u ELSE users[u].name
    IN  [id             |-> id,
         sender_id      |-> sender_id,
         sender_role    |-> role,
         sender_display |-> IF anon_box THEN AnonName(u) ELSE sender_id,
         is_anonymous   |-> anon_box,
         recipient      |-> recipient,
         flagged        |-> FALSE,
         flag_reason    |-> "",
         reactions      |-> [e \in Emojis |-> {}]]

\* The message the send helper of the user's role hands to create_message,
\* with the fields create_message adds.
NewMessage(u, recipient, anon_box, id) ==
    LET role         == users[u].role
        display_name == users[u].name
        is_anonymous ==
            CASE role = "student" -> IF recipient = "senate" THEN FALSE ELSE anon_box
              [] role = "senator" -> anon_box /\ recipient = "all_school"
              [] OTHER            -> FALSE
        sender_id ==
            IF role = "student" /\ recipient # "senate" THEN u ELSE display_name
    IN  [id             |-> id,
         sender_id      |-> sender_id,
         sender_role    |-> role,
         sender_display |-> IF is_anonymous THEN AnonName(u) ELSE sender_id,
         is_anonymous   |-> is_anonymous,
         recipient      |-> recipient,
         flagged        |-> FALSE,
         flag_reason    |-> "",
         reactions      |-> [e \in Emojis |-> {}]]

\* Whether the feed of a role renders a card, with its buttons, for message m:
\* the student and teacher feeds show the school feed, the super admin sees
\* every message.
Shown(role, m) == role = "super_admin" \/ m.recipient = "all_school"

\* Index of the first message of file with the given id, 0 when there is none.
IndexOf(file, mid) ==
    IF \E i \in 1..Len(file) : file[i].id = mid
    THEN CHOOSE i \in 1..Len(file) :
            /\ file[i].id = mid
            /\ \A j \in 1..(i - 1) : file[j].id # mid
    ELSE 0

\* Whether add_reaction, having saved, notifies the owner of the message.
NotifiesOwner(op, data) ==
    /\ op.kind = "react"
    /\ IndexOf(data, op.mid) # 0
    /\ OwnerOf(data[IndexOf(data, op.mid)].sender_id) \notin {None, op.user_id}

RemoveAt(file, idx) ==
    [i \in 1..(Len(file) - 1) |-> IF i < idx THEN file[i] ELSE file[i + 1]]

\* delete_message's permission check.
MayDelete(m, user_id, role) ==
    LET is_owner       == m.sender_id = user_id
        is_super_admin == role = "super_admin"
    IN  is_owner \/ is_super_admin

\* add_reaction's toggle of user_id in the emoji's list.
Toggle(m, user_id, emoji) ==
    [m EXCEPT !.reactions[emoji] =
        IF user_id \in @ THEN @ \ {user_id} ELSE @ \cup {user_id}]

\* Whether the operation, run on the in-memory copy data, changes it and saves.
Saves(op, data) ==
    CASE op.kind = "create" -> TRUE
      [] op.kind = "react"  -> IndexOf(data, op.mid) # 0
      [] op.kind = "delete" ->
            /\ IndexOf(data, op.mid) # 0
            /\ MayDelete(data[IndexOf(data, op.mid)], op.user_id, op.role)
      [] OTHER -> FALSE

\* The in-memory copy after the operation changed it.
Effect(op, data) ==
    CASE op.kind = "create" -> Append(data, op.msg)
      [] op.kind = "react"  ->
            [data EXCEPT ![IndexOf(data, op.mid)] = Toggle(@, op.user_id, op.emoji)]
      [] op.kind = "delete" -> RemoveAt(data, IndexOf(data, op.mid))
      [] OTHER -> data

\* load_json(MESSAGES_FILE) at the head of an operation of session s.
Load(s, op) ==
    /\ spc[s] = "idle"
    /\ nops < MaxOps
    /\ nops' = nops + 1
    /\ spc' = [spc EXCEPT ![s] = "loaded"]
    /\ sop' = [sop EXCEPT ![s] = op]
    /\ snap' = [snap EXCEPT ![s] = msgfile]
    /\ UNCHANGED <<users, msgfile, ret, author, acked, removed>>
    /\ UNCHANGED <<revealed, notifs, notified>>
    /\ UNCHANGED nonJsonVars

\* A send helper of user u's role up to create_message's load_json.
BeginCreate(s, u, recipient, anon_box) ==
    /\ u \in DOMAIN users
    /\ users[u].role \in Roles
    /\ Load(s, [NoOp EXCEPT !.kind = "create", !.mid = nextId, !.account = u,
                            !.msg = NewMessage(u, recipient, anon_box, nextId)])
    /\ nextId' = nextId + 1

\* A click on a card's Like button: add_reaction(message_id, user_id, emoji)
\* up to its load_json.
BeginReact(s, u, mid, emoji) ==
    /\ u \in DOMAIN users
    /\ users[u].role \in Roles
    /\ \E m \in Range(msgfile) : m.id = mid /\ Shown(users[u].role, m)
    /\ Load(s, [NoOp EXCEPT !.kind = "react", !.mid = mid, !.account = u,
                            !.user_id = UserId(u), !.emoji = emoji])
    /\ UNCHANGED nextId

\* A click on a card's Delete button, or a call with the arguments the card
\* would pass: delete_message(message_id, user_id, user_role) up to its
\* load_json.
BeginDelete(s, u, mid) ==
    /\ u \in DOMAIN users
    /\ \E m \in Range(msgfile) : m.id = mid /\ Shown(users[u].role, m)
    /\ Load(s, [NoOp EXCEPT !.kind = "delete", !.mid = mid, !.account = u,
                            !.user_id = UserId(u), !.role = users[u].role])
    /\ UNCHANGED nextId

\* Mutant: the operation works on the file as it is when it saves, as it
\* would if load and save ran under one lock.
FinishOpLocked(s) ==
    /\ spc[s] = "loaded"
    /\ spc' = [spc EXCEPT ![s] = "idle"]
    /\ IF Saves(sop[s], msgfile)
       THEN /\ msgfile' = Effect(sop[s], msgfile)
            /\ ret' = RetTrue
            /\ author' = IF sop[s].kind = "create"
                         THEN author @@ (sop[s].mid :> sop[s].account)
                         ELSE author
            /\ acked' = IF sop[s].kind = "create"
                        THEN acked \cup {sop[s].mid} ELSE acked
            /\ removed' = IF sop[s].kind = "delete"
                          THEN removed \cup {[id      |-> sop[s].mid,
                                              account |-> sop[s].account,
                                              role    |-> sop[s].role]}
                          ELSE removed
       ELSE /\ ret' = RetFalse
            /\ UNCHANGED <<msgfile, author, acked, removed>>
    /\ IF NotifiesOwner(sop[s], msgfile)
       THEN LET owner == OwnerOf(msgfile[IndexOf(msgfile, sop[s].mid)].sender_id)
            IN  /\ notifs' = [notifs EXCEPT ![owner] = Append(@,
                        Notification("reaction", sop[s].user_id, owner,
                                     sop[s].mid, sop[s].emoji))]
                /\ notified' = notified \cup
                        {Notified("reaction", sop[s].account, sop[s].user_id, owner)}
       ELSE UNCHANGED <<notifs, notified>>
    /\ sop' = [sop EXCEPT ![s] = NoOp]
    /\ snap' = [snap EXCEPT ![s] = <<>>]
    /\ UNCHANGED <<users, nextId, nops, revealed>>
    /\ UNCHANGED nonJsonVars

\* The rest of the operation: change the in-memory copy, save_json the whole
\* file from it and return True, or return False without saving.
FinishOp(s) ==
    /\ spc[s] = "loaded"
    /\ spc' = [spc EXCEPT ![s] = "idle"]
    /\ IF Saves(sop[s], snap[s])
       THEN /\ msgfile' = Effect(sop[s], snap[s])
            /\ ret' = RetTrue
            /\ author' = IF sop[s].kind = "create"
                         THEN author @@ (sop[s].mid :> sop[s].account)
                         ELSE author
            /\ acked' = IF sop[s].kind = "create"
                        THEN acked \cup {sop[s].mid} ELSE acked
            /\ removed' = IF sop[s].kind = "delete"
                          THEN removed \cup {[id      |-> sop[s].mid,
                                              account |-> sop[s].account,
                                              role    |-> sop[s].role]}
                          ELSE removed
       ELSE /\ ret' = RetFalse
            /\ UNCHANGED <<msgfile, author, acked, removed>>
    /\ IF NotifiesOwner(sop[s], snap[s])
       THEN LET owner == OwnerOf(snap[s][IndexOf(snap[s], sop[s].mid)].sender_id)
            IN  /\ notifs' = [notifs EXCEPT ![owner] = Append(@,
                        Notification("reaction", sop[s].user_id, owner,
                                     sop[s].mid, sop[s].emoji))]
                /\ notified' = notified \cup
                        {Notified("reaction", sop[s].account, sop[s].user_id, owner)}
       ELSE UNCHANGED <<notifs, notified>>
    /\ sop' = [sop EXCEPT ![s] = NoOp]
    /\ snap' = [snap EXCEPT ![s] = <<>>]
    /\ UNCHANGED <<users, nextId, nops, revealed>>
    /\ UNCHANGED nonJsonVars

\* The data layer as the other specifications leave it: no operation runs.
JsonIdle ==
    /\ users = (SuperAdmin :> [role |-> "super_admin", name |-> "Super Administrator"])
    /\ msgfile = <<>>
    /\ nextId = 1
    /\ nops = 0
    /\ spc = [s \in Sessions |-> "idle"]
    /\ sop = [s \in Sessions |-> NoOp]
    /\ snap = [s \in Sessions |-> <<>>]
    /\ ret = None
    /\ author = <<>>
    /\ acked = {}
    /\ removed = {}
    /\ revealed = [u \in Accounts |-> {}]
    /\ notifs = [u \in Accounts |-> <<>>]
    /\ notified = {}

JsonInit ==
    /\ users \in UserTables
    /\ msgfile = <<>>
    /\ nextId = 1
    /\ nops = 0
    /\ spc = [s \in Sessions |-> "idle"]
    /\ sop = [s \in Sessions |-> NoOp]
    /\ snap = [s \in Sessions |-> <<>>]
    /\ ret = None
    /\ author = <<>>
    /\ acked = {}
    /\ removed = {}
    /\ revealed = [u \in Accounts |-> {}]
    /\ notifs = [u \in Accounts |-> <<>>]
    /\ notified = {}

JsonNext ==
    \/ \E s \in Sessions, u \in Usernames, r \in Recipients, b \in BOOLEAN :
          BeginCreate(s, u, r, b)
    \/ \E s \in Sessions, u \in Usernames, i \in 1..MaxOps, e \in Emojis :
          BeginReact(s, u, i, e)
    \/ \E s \in Sessions, u \in Usernames \cup {SuperAdmin}, i \in 1..MaxOps :
          BeginDelete(s, u, i)
    \/ \E s \in Sessions : FinishOp(s)

(***************************************************************************)
(* The post composer of the role feeds: the Send To selectbox and the Send  *)
(* Anonymously checkbox keep their values in st.session_state, and the      *)
(* Enter-to-send helper of the role reads them from there.                  *)
(***************************************************************************)
Composer == "s1"        \* the browser session the composer runs in
Poster   == "kim"       \* the account logged in there

\* The options of the role's Send To selectbox.
RecipientOptions(role) ==
    CASE role = "student" -> {"all_school", "senate"}
      [] role = "teacher" -> {"all_school", "teachers", "senate", "super_admin"}
      [] role = "senator" -> {"all_school", "senate", "teachers", "admins", "super_admin"}
      [] role = "admin"   -> {"all_school", "admins", "senate", "super_admin"}
      [] OTHER            -> {}

\* users.json with the poster's account in each of the four roles.
SendUserTables ==
    {(SuperAdmin :> [role |-> "super_admin", name |-> "Super Administrator"])
        @@ (Poster :> [role |-> r, name |-> "Lee"]) : r \in Roles}

\* The user picks an option of Send To.
SelectRecipient(s, u, r) ==
    /\ spc[s] = "idle"
    /\ r \in RecipientOptions(users[u].role)
    /\ r # ss_recipient[s]
    /\ ss_recipient' = [ss_recipient EXCEPT ![s] = r]
    /\ UNCHANGED ss_is_anon
    /\ UNCHANGED nonSendVars

\* The user ticks or unticks Send Anonymously; the student and senator feeds
\* render the checkbox, disabled unless Send To is all_school.  A disabled
\* checkbox keeps its value in st.session_state.
TickAnonymous(s, u) ==
    /\ spc[s] = "idle"
    /\ users[u].role \in {"student", "senator"}
    /\ ss_recipient[s] = "all_school"
    /\ ss_is_anon' = [ss_is_anon EXCEPT ![s] = ~@]
    /\ UNCHANGED ss_recipient
    /\ UNCHANGED nonSendVars

\* Enter in the message box: the on_change helper of the user's role reads
\* the two values from st.session_state and calls create_message.
SendOnEnter(s, u) == BeginCreate(s, u, ss_recipient[s], ss_is_anon[s])

\* create_message's append, save_json and return.
SendSaved(s) == FinishOp(s)

SendIdle ==
    /\ ss_recipient = [s \in Sessions |-> "all_school"]
    /\ ss_is_anon = [s \in Sessions |-> FALSE]

\* The checkbox starts ticked in the student feed and unticked in the senator
\* feed; the teacher and admin feeds render none, whatever the key holds.
SendInit ==
    /\ users \in SendUserTables
    /\ msgfile = <<>>
    /\ nextId = 1
    /\ nops = 0
    /\ spc = [s \in Sessions |-> "idle"]
    /\ sop = [s \in Sessions |-> NoOp]
    /\ snap = [s \in Sessions |-> <<>>]
    /\ ret = None
    /\ author = <<>>
    /\ acked = {}
    /\ removed = {}
    /\ revealed = [u \in Accounts |-> {}]
    /\ notifs = [u \in Accounts |-> <<>>]
    /\ notified = {}
    /\ ss_recipient = [s \in Sessions |-> "all_school"]
    /\ \E b \in BOOLEAN :
          /\ users[Poster].role = "student" => b
          /\ users[Poster].role = "senator" => ~b
          /\ ss_is_anon = [s \in Sessions |-> b]

SendNext ==
    \/ \E r \in UNION {RecipientOptions(ro) : ro \in Roles} :
          SelectRecipient(Composer, Poster, r)
    \/ TickAnonymous(Composer, Poster)
    \/ SendOnEnter(Composer, Poster)
    \/ SendSaved(Composer)

\* C12: every message stored through the role send paths is anonymous only if
\* its recipient is all_school and its sender_role is student or senator; a
\* student's message to the senate is never anonymous and carries the
\* student's display name as sender_display; teacher and admin messages are
\* never anonymous, whatever the checkbox's value in session state.
C12_AnonymityOnlyToSchool ==
    \A m \in Range(msgfile) :
        /\ m.is_anonymous =>
              (m.recipient = "all_school" /\ m.sender_role \in {"student", "senator"})
        /\ (m.sender_role = "student" /\ m.recipient = "senate") =>
              (~m.is_anonymous /\ m.sender_display = users[author[m.id]].name)
        /\ m.sender_role \in {"teacher", "admin"} => ~m.is_anonymous
        /\ m.is_anonymous => m.sender_display = AnonName(author[m.id])

\* C12 witness: the last message stored is a student's message to the senate,
\* sent while the session state held a ticked checkbox, after an anonymous
\* message to the whole school.
C12_Witness ==
    /\ spc[Composer] = "idle" /\ ss_is_anon[Composer] /\ ss_recipient[Composer] = "senate"
    /\ Len(msgfile) = 2
    /\ msgfile[1].is_anonymous /\ msgfile[1].recipient = "all_school"
    /\ msgfile[2].sender_role = "student" /\ msgfile[2].recipient = "senate"

\* Session s finishes its operation in this step and the operation returns True.
ReturnsTrue(s) == spc[s] = "loaded" /\ spc'[s] = "idle" /\ ret' = RetTrue

\* C8: no concurrency control in the JSON data layer.  An operation that
\* returns True rewrites the whole file from the copy it loaded: apart from the
\* one message the operation is about, the file afterwards holds exactly the
\* messages of that copy, so every message another session saved between this
\* session's load and its save is gone, although its create returned True.
C8_LostUpdate ==
    [][\A s \in Sessions :
          ReturnsTrue(s) =>
              /\ \A m \in Range(msgfile') :
                    m.id = sop[s].mid \/ m \in Range(snap[s])
              /\ \A m \in Range(snap[s]) :
                    m.id = sop[s].mid \/ m \in Range(msgfile')
              /\ \A i \in acked :
                    (i \in Ids(msgfile) /\ i \notin Ids(snap[s]) /\ i # sop[s].mid)
                        => i \notin Ids(msgfile')
              /\ acked \subseteq acked']_vars

\* C8 witness: both sessions are idle, a create_message returned True, nobody
\* deleted its message, and the file does not hold it.
C8_Witness ==
    /\ \A s \in Sessions : spc[s] = "idle"
    /\ \E i \in acked :
          /\ i \notin Ids(msgfile)
          /\ \A r \in removed : r.id # i

\* C9: delete_message removes a message only when the caller is the account
\* that sent it or has role super_admin.
C9_DeleteOnlyByOwner ==
    \A r \in removed : r.role = "super_admin" \/ author[r.id] = r.account

(***************************************************************************)
(* SQLITE CONVERSATIONS                                                    *)
(***************************************************************************)
ConvUsers == Usernames \cup {SuperAdmin}

\* Python's string order on the usernames of the model.
UserRank == ("ann" :> 0) @@ ("kim" :> 1) @@ ("sam" :> 2) @@ (SuperAdmin :> 3)
StrLeq(a, b) == UserRank[a] <= UserRank[b]

_ensure_normalized_conversation(a, b) == IF StrLeq(a, b) THEN <<a, b>> ELSE <<b, a>>

NoCall == [ua |-> None, ub |-> None, found |-> 0]

\* SELECT id FROM conversations WHERE user_a=? AND user_b=?, fetchone():
\* the id of the first matching row, 0 when there is none.
SelectConversation(ua, ub) ==
    IF \E i \in 1..Len(conversations) :
            conversations[i].user_a = ua /\ conversations[i].user_b = ub
    THEN LET i == CHOOSE i \in 1..Len(conversations) :
                    /\ conversations[i].user_a = ua /\ conversations[i].user_b = ub
                    /\ \A j \in 1..(i - 1) :
                          ~(conversations[j].user_a = ua /\ conversations[j].user_b = ub)
         IN  conversations[i].id
    ELSE 0

\* SELECT 1 FROM follows WHERE follower=? AND followee=?
is_following(follower, followee) == <<follower, followee>> \in follows

\* Mutant: the profile checks only that the viewer follows the viewed user.
StartConversationOneWay(viewer, viewed_username) ==
    /\ viewer # viewed_username
    /\ is_following(viewer, viewed_username)

\* render_profile offers Start Conversation: the profile is another user's and
\* the two follow each other.
StartConversationOffered(viewer, viewed_username) ==
    /\ viewer # viewed_username
    /\ is_following(viewer, viewed_username)
    /\ is_following(viewed_username, viewer)

\* A click on a profile's or the directory's Follow button, shown while the
\* viewer does not follow the user: follow_user(follower, followee).
\* It inserts the follows row and appends a follow notification for the
\* followee to notifications.json.
FollowUser(follower, followee) ==
    /\ follower # followee
    /\ ~is_following(follower, followee)
    /\ nops < MaxOps
    /\ nops' = nops + 1
    /\ follows' = follows \cup {<<follower, followee>>}
    /\ notifs' = [notifs EXCEPT ![followee] = Append(@,
            Notification("follow", follower, followee, 0, None))]
    /\ notified' = notified \cup {Notified("follow", follower, follower, followee)}
    /\ UNCHANGED <<conversations, nextConv, cpc, cargs, creturns>>
    /\ UNCHANGED <<users, msgfile, nextId, spc, sop, snap, ret, author, acked,
                   removed, revealed>>
    /\ UNCHANGED <<gwVars, sendVars, sortVars, chatVars, backupVars>>

\* A click on Unfollow, shown while the viewer follows the user:
\* unfollow_user(follower, followee).
UnfollowUser(follower, followee) ==
    /\ is_following(follower, followee)
    /\ follows' = follows \ {<<follower, followee>>}
    /\ UNCHANGED <<conversations, nextConv, cpc, cargs, creturns>>
    /\ UNCHANGED nonConvVars

\* A click on Start Conversation in the profile user_a views of user_b: the
\* two is_following checks of the render, then
\* create_or_get_conversation(user_a, user_b) up to the SELECT's fetchone().
ConvSelect(s, user_a, user_b) ==
    /\ cpc[s] = "idle"
    /\ StartConversationOffered(user_a, user_b)
    /\ Len(conversations) + Cardinality({t \in Sessions : cpc[t] = "selected"})
          < MaxConvRows
    /\ LET n == _ensure_normalized_conversation(user_a, user_b)
       IN  cargs' = [cargs EXCEPT ![s] =
                [ua |-> n[1], ub |-> n[2], found |-> SelectConversation(n[1], n[2])]]
    /\ cpc' = [cpc EXCEPT ![s] = "selected"]
    /\ UNCHANGED <<conversations, nextConv, creturns, follows>>
    /\ UNCHANGED nonConvVars

\* The rest of create_or_get_conversation: return the row found, or INSERT a
\* row under a fresh id, commit and return it. The click's handler then stores
\* the id in open_conversation and switches the view to 'conversations'.
ConvFinish(s) ==
    /\ cpc[s] = "selected"
    /\ cpc' = [cpc EXCEPT ![s] = "idle"]
    /\ IF cargs[s].found # 0
       THEN /\ creturns' = creturns \cup
                    {[ua |-> cargs[s].ua, ub |-> cargs[s].ub, id |-> cargs[s].found]}
            /\ UNCHANGED <<conversations, nextConv>>
       ELSE /\ conversations' = Append(conversations,
                    [id |-> nextConv, user_a |-> cargs[s].ua, user_b |-> cargs[s].ub,
                     anon_by_default |-> 1])
            /\ nextConv' = nextConv + 1
            /\ creturns' = creturns \cup
                    {[ua |-> cargs[s].ua, ub |-> cargs[s].ub, id |-> nextConv]}
    /\ cargs' = [cargs EXCEPT ![s] = NoCall]
    /\ open_conversation' = [open_conversation EXCEPT ![s] =
            IF cargs[s].found # 0 THEN cargs[s].found ELSE nextConv]
    /\ current_view' = [current_view EXCEPT ![s] = "conversations"]
    /\ UNCHANGED <<pwhash, authenticated, user_info, login_form,
                   profile_view_user, messages_db, db_call>>
    /\ UNCHANGED follows
    /\ UNCHANGED <<gwVars, jsonVars, sendVars, sortVars, backupVars>>

ConvInit ==
    /\ conversations = <<>>
    /\ nextConv = 1
    /\ cpc = [s \in Sessions |-> "idle"]
    /\ cargs = [s \in Sessions |-> NoCall]
    /\ creturns = {}
    /\ follows = {}

ConvNext ==
    \/ \E a \in ConvUsers, b \in ConvUsers : FollowUser(a, b)
    \/ \E a \in ConvUsers, b \in ConvUsers : UnfollowUser(a, b)
    \/ \E s \in Sessions, a \in ConvUsers, b \in ConvUsers : ConvSelect(s, a, b)
    \/ \E s \in Sessions : ConvFinish(s)

(***************************************************************************)
(* Follow and reaction notifications                                       *)
(***************************************************************************)
\* users.json of the notification scenarios: two students and a teacher whose
\* full name is another user's username.
NotifUsers ==
    (SuperAdmin :> [role |-> "super_admin", name |-> "Super Administrator"])
        @@ ("ann" :> [role |-> "student", name |-> "Ann"])
        @@ ("kim" :> [role |-> "student", name |-> "Lee"])
        @@ ("sam" :> [role |-> "teacher", name |-> "kim"])

\* Update Reveal List on the user's own profile: set_revealed_list(viewer,
\* selected), selected among the other users of users.json.
SetRevealedList(username, reveal_list) ==
    /\ username \in DOMAIN users
    /\ reveal_list \subseteq DOMAIN users \ {username}
    /\ reveal_list # revealed[username]
    /\ nops < MaxOps
    /\ nops' = nops + 1
    /\ revealed' = [revealed EXCEPT ![username] = reveal_list]
    /\ UNCHANGED <<users, msgfile, nextId, spc, sop, snap, ret, author, acked,
                   removed, notifs, notified>>
    /\ UNCHANGED nonJsonVars

\* Two posts on the school feed, by ann and by kim.
NotifInit ==
    /\ users = NotifUsers
    /\ \E b \in BOOLEAN :
          msgfile = <<NewMessage("ann", "all_school", FALSE, 1),
                      NewMessage("kim", "all_school", b, 2)>>
    /\ nextId = 3
    /\ nops = 0
    /\ spc = [s \in Sessions |-> "idle"]
    /\ sop = [s \in Sessions |-> NoOp]
    /\ snap = [s \in Sessions |-> <<>>]
    /\ ret = None
    /\ author = (1 :> "ann") @@ (2 :> "kim")
    /\ acked = {1, 2}
    /\ removed = {}
    /\ revealed = [u \in Accounts |-> {}]
    /\ notifs = [u \in Accounts |-> <<>>]
    /\ notified = {}

NotifNext ==
    \/ \E u \in Accounts, l \in SUBSET Accounts : SetRevealedList(u, l)
    \/ \E a \in Accounts, b \in Accounts : FollowUser(a, b)
    \/ \E a \in Accounts, b \in Accounts : UnfollowUser(a, b)
    \/ \E u \in {"ann", "kim", "sam"}, i \in 1..2, e \in Emojis :
          BeginReact(Composer, u, i, e)
    \/ FinishOp(Composer)

\* C13: a follow or reaction notification created for recipient R by the
\* account X carries X's real name only if R was in X's revealed_to list when
\* the notification was created; otherwise it carries X's anonymous name.
C13_RealNameOnlyIfRevealed ==
    \A n \in notified :
        /\ n.display = users[n.account].name => n.revealed
        /\ ~n.revealed => n.display = AnonName(n.account)

(***************************************************************************)
(* sort_messages_for_user(messages, viewer_username)                       *)
(***************************************************************************)
Viewer  == "kim"
Senders == {"kim", "sam", "ann"}

\* get_following_list(username)
get_following_list(username) == {f[2] : f \in {g \in follows : g[1] = username}}

\* score(m)[0]: 2 for the viewer's own messages, 1 for messages of a followed
\* sender, 0 for the rest.
Score(m, viewer_username) ==
    IF m.sender_id = viewer_username THEN 2
    ELSE IF m.sender_id \in get_following_list(viewer_username) THEN 1
    ELSE 0

\* The sort key of the lambda: (-score(m)[0], parsed_time(timestamp)).
SortKey(m, viewer_username) == <<0 - Score(m, viewer_username), m.timestamp>>

\* Python's order on the key tuples.
KeyLess(k1, k2) == k1[1] < k2[1] \/ (k1[1] = k2[1] /\ k1[2] < k2[2])

\* sorted(..., reverse=True) is stable: it puts a larger key first and leaves
\* messages of equal keys in the order of the input.  Insert m into the
\* sorted list acc, behind every message whose key is not smaller.
InsertDescending(acc, m, viewer_username) ==
    LET ahead == {i \in 1..Len(acc) :
                    ~KeyLess(SortKey(acc[i], viewer_username),
                             SortKey(m, viewer_username))}
        n     == Cardinality(ahead)
    IN  SubSeq(acc, 1, n) \o <<m>> \o SubSeq(acc, n + 1, Len(acc))

RECURSIVE SortedDescending(_, _, _)
SortedDescending(messages, k, viewer_username) ==
    IF k = 0 THEN <<>>
    ELSE InsertDescending(SortedDescending(messages, k - 1, viewer_username),
                          messages[k], viewer_username)

sort_messages_for_user(messages, viewer_username) ==
    SortedDescending(messages, Len(messages), viewer_username)

\* The lists get_messages returns: newest first.
Feeds ==
    LET Posts(n) == {f \in [1..n -> [id : 1..n, sender_id : Senders,
                                      timestamp : 1..MaxFeed]] :
                        /\ \A i \in 1..n : f[i].id = i
                        /\ \A i \in 1..(n - 1) : f[i].timestamp >= f[i + 1].timestamp}
    IN  UNION {Posts(n) : n \in 0..MaxFeed}

\* The feed's call of sort_messages_for_user.
SortFeed ==
    /\ sorted_feed = None
    /\ sorted_feed' = sort_messages_for_user(feed, Viewer)
    /\ UNCHANGED feed
    /\ UNCHANGED nonSortVars

\* The feed is rendered and the next rerun starts.
Rerun ==
    /\ sorted_feed # None
    /\ sorted_feed' = None
    /\ UNCHANGED feed
    /\ UNCHANGED nonSortVars

SortIdle ==
    /\ feed = <<>>
    /\ sorted_feed = None

SortInit ==
    /\ feed \in Feeds
    /\ sorted_feed = None

\* The viewer follows nobody, one or both of the other senders.
FollowsInit ==
    /\ conversations = <<>>
    /\ nextConv = 1
    /\ cpc = [s \in Sessions |-> "idle"]
    /\ cargs = [s \in Sessions |-> NoCall]
    /\ creturns = {}
    /\ follows \in SUBSET {<<Viewer, "sam">>, <<Viewer, "ann">>, <<"sam", Viewer>>}

SortNext == SortFeed \/ Rerun

\* A message of the viewer or of a sender the viewer follows.
Prioritised(m) == m.sender_id = Viewer \/ <<Viewer, m.sender_id>> \in follows

\* C14: sort_messages_for_user returns a permutation of its input in which
\* every message of the viewer or of a followed sender comes before every
\* message of any other sender, and the messages of one priority group are
\* ordered newest first.
C14_FollowedFirst ==
    sorted_feed # None =>
        /\ Len(sorted_feed) = Len(feed)
        /\ \A i \in 1..Len(feed) : \E j \in 1..Len(sorted_feed) : sorted_feed[j] = feed[i]
        /\ \A i, j \in 1..Len(sorted_feed) :
              i < j =>
                  /\ ~(Prioritised(sorted_feed[j]) /\ ~Prioritised(sorted_feed[i]))
                  /\ Prioritised(sorted_feed[i]) = Prioritised(sorted_feed[j]) =>
                        sorted_feed[i].timestamp >= sorted_feed[j].timestamp

(***************************************************************************)
(* save_json's backups and initialize_data's restore                       *)
(***************************************************************************)
\* USERS_FILE, MESSAGES_FILE, ANONYMOUS_NAMES_FILE, NOTIFICATIONS_FILE
DataFiles == {"users.json", "messages.json", "anonymous_names.json",
              "notifications.json"}

\* The content initialize_data's restore loop compares a file with; the
\* contents sessions save are this one and two others.
Default  == "default"
Contents == {Default, "A", "B"}

\* What initialize_data saves into a file that does not exist: users.json gets
\* the super admin's account, the others their default.
InitialContent(f) == IF f = "users.json" THEN "A" ELSE Default

NoSave == [file |-> None, data |-> None]

\* _latest_backup_for(filepath): the backup with the greatest st_mtime, None
\* when there is none. backups[f] is in the order of the backups' writes.
_latest_backup_for(f) ==
    IF backups[f] = <<>> THEN None ELSE backups[f][Len(backups[f])]

\* save_json(filepath, data) of session s up to the end of the write of the
\* file itself.
SaveWrite(s, f, data) ==
    /\ bpc[s] = "idle"
    /\ nsaves < MaxSaves
    /\ nsaves' = nsaves + 1
    /\ data_files' = [data_files EXCEPT ![f] = data]
    /\ last_saved' = [last_saved EXCEPT ![f] = data]
    /\ bargs' = [bargs EXCEPT ![s] = [file |-> f, data |-> data]]
    /\ bpc' = [bpc EXCEPT ![s] = "written"]
    /\ UNCHANGED backups
    /\ UNCHANGED nonBackupVars

\* The rest of save_json: the timestamped backup of the data just written.
SaveBackup(s) ==
    /\ bpc[s] = "written"
    /\ backups' = [backups EXCEPT ![bargs[s].file] = Append(@, bargs[s].data)]
    /\ bargs' = [bargs EXCEPT ![s] = NoSave]
    /\ bpc' = [bpc EXCEPT ![s] = "idle"]
    /\ UNCHANGED <<data_files, last_saved, nsaves>>
    /\ UNCHANGED nonBackupVars

\* initialize_data's restore loop for one file, at the head of a script run:
\* a file that loads as its default is overwritten with the latest backup.
Restore(f) ==
    /\ data_files[f] = Default
    /\ _latest_backup_for(f) # None
    /\ data_files' = [data_files EXCEPT ![f] = _latest_backup_for(f)]
    /\ UNCHANGED <<backups, bpc, bargs, last_saved, nsaves>>
    /\ UNCHANGED nonBackupVars

\* The data directory after the first run of initialize_data.
BackupInit ==
    /\ data_files = [f \in DataFiles |-> InitialContent(f)]
    /\ backups = [f \in DataFiles |-> <<InitialContent(f)>>]
    /\ last_saved = [f \in DataFiles |-> InitialContent(f)]
    /\ bpc = [s \in Sessions |-> "idle"]
    /\ bargs = [s \in Sessions |-> NoSave]
    /\ nsaves = 0

BackupNext ==
    \/ \E s \in Sessions, f \in DataFiles, d \in Contents : SaveWrite(s, f, d)
    \/ \E s \in Sessions : SaveBackup(s)
    \/ \E f \in DataFiles : Restore(f)

(***************************************************************************)
(* LOGIN, VIEWS AND PRIVATE MESSAGES: main and the pages it dispatches to   *)
(***************************************************************************)
\* st.session_state.user_info = None
NoUser == [username |-> None, role |-> None, name |-> None]
NoForm == [username |-> None, password |-> None]

\* Passwords typed into the login form; each account's password is "pw-" and
\* its username, the super admin's is the one initialize_data sets.
PasswordOf(username) ==
    CASE username = SuperAdmin -> "admin123"
      [] username = "ann" -> "pw-ann"
      [] username = "kim" -> "pw-kim"
      [] username = "sam" -> "pw-sam"
      [] OTHER -> "pw"
Passwords == {"admin123", "pw-ann", "pw-kim"}

\* hashlib.sha256(password.encode()).hexdigest(): no two passwords of the
\* model share a digest.
hash_password(password) == <<"sha256", password>>

\* Mutant: the stored hash is not compared.
authenticateAnyPassword(username, password) == username \in DOMAIN users

\* authenticate(username, password) returns the user's record, not None.
authenticate(username, password) ==
    /\ username \in DOMAIN users
    /\ pwhash[username] = hash_password(password)

\* Submit of the login form, rendered while the session is not authenticated.
Login(s, username, password) ==
    /\ ~authenticated[s]
    /\ cpc[s] = "idle"
    /\ spc[s] = "idle"
    /\ login_form' = [login_form EXCEPT ![s] =
            [username |-> username, password |-> password]]
    /\ IF authenticate(username, password)
       THEN /\ authenticated' = [authenticated EXCEPT ![s] = TRUE]
            /\ user_info' = [user_info EXCEPT ![s] =
                    [username |-> username, role |-> users[username].role,
                     name |-> users[username].name]]
       ELSE UNCHANGED <<authenticated, user_info>>
    /\ UNCHANGED <<pwhash, current_view, profile_view_user, open_conversation,
                   messages_db, db_call>>
    /\ UNCHANGED nonChatVars

\* The Log Out button of the top bar.
Logout(s) ==
    /\ authenticated[s]
    /\ cpc[s] = "idle"
    /\ spc[s] = "idle"
    /\ authenticated' = [authenticated EXCEPT ![s] = FALSE]
    /\ user_info' = [user_info EXCEPT ![s] = NoUser]
    /\ UNCHANGED <<pwhash, login_form, current_view, profile_view_user,
                   open_conversation, messages_db, db_call>>
    /\ UNCHANGED nonChatVars

\* The views the top bar's buttons lead to.
NavViews == {"home", "notifications", "settings", "people", "profile"}

\* A navigation button of the top bar; Profile opens the user's own profile.
Navigate(s, view) ==
    /\ authenticated[s]
    /\ cpc[s] = "idle"
    /\ spc[s] = "idle"
    /\ view \in NavViews
    /\ current_view' = [current_view EXCEPT ![s] = view]
    /\ profile_view_user' =
          IF view = "profile"
          THEN [profile_view_user EXCEPT ![s] = user_info[s].username]
          ELSE profile_view_user
    /\ UNCHANGED <<pwhash, authenticated, user_info, login_form,
                   open_conversation, messages_db, db_call>>
    /\ UNCHANGED nonChatVars

\* View Profile in the people directory, which lists every user but superadmin.
ViewProfile(s, username) ==
    /\ authenticated[s]
    /\ cpc[s] = "idle"
    /\ spc[s] = "idle"
    /\ current_view[s] = "people"
    /\ username \in DOMAIN users \ {SuperAdmin}
    /\ profile_view_user' = [profile_view_user EXCEPT ![s] = username]
    /\ current_view' = [current_view EXCEPT ![s] = "profile"]
    /\ UNCHANGED <<pwhash, authenticated, user_info, login_form,
                   open_conversation, messages_db, db_call>>
    /\ UNCHANGED nonChatVars

NoDbCall == [conversation_id |-> 0, sender |-> None, is_anonymous |-> None,
             outcome |-> None]

\* No session has run main yet; nobody has sent a private message.
ChatIdle ==
    /\ pwhash = [u \in Accounts |-> hash_password(PasswordOf(u))]
    /\ authenticated = [s \in Sessions |-> FALSE]
    /\ user_info = [s \in Sessions |-> NoUser]
    /\ login_form = [s \in Sessions |-> NoForm]
    /\ current_view = [s \in Sessions |-> "home"]
    /\ profile_view_user = [s \in Sessions |-> None]
    /\ open_conversation = [s \in Sessions |-> 0]
    /\ messages_db = <<>>
    /\ db_call = NoDbCall

\* The one browser session of the login scenarios.
Browser == "s1"

\* The usernames typed into the login form; "bob" has no account.
LoginNames == {"ann", "kim", "bob"}

\* SELECT ... FROM conversations WHERE user_a=? OR user_b=?
get_user_conversations(username) ==
    {conversations[i] : i \in {j \in 1..Len(conversations) :
        conversations[j].user_a = username \/ conversations[j].user_b = username}}

\* SELECT user_a, user_b, anon_by_default FROM conversations WHERE id=?
ConversationIds == {conversations[i].id : i \in 1..Len(conversations)}
ConversationRow(conv_id) ==
    conversations[CHOOSE i \in 1..Len(conversations) : conversations[i].id = conv_id]

get_user_role(username) ==
    IF username \in DOMAIN users THEN users[username].role ELSE None

\* bool(x) of a stored 0/1 flag.
Bool(x) == x # 0

\* send_db_message's effective_anonymous; is_anonymous is "None" or a boolean
\* written "True" or "False".
EffectiveAnonymous(conv, sender, is_anonymous) ==
    IF is_anonymous = None
    THEN LET other == IF sender # conv.user_a THEN conv.user_a ELSE conv.user_b
         IN  IF get_user_role(sender) = "student" /\ get_user_role(other) = "student"
             THEN TRUE
             ELSE Bool(conv.anon_by_default)
    ELSE is_anonymous = RetTrue

\* The row send_db_message inserts.
DbRow(conv, sender, is_anonymous, anon_name) ==
    LET effective_anonymous == EffectiveAnonymous(conv, sender, is_anonymous)
    IN  [id              |-> Len(messages_db) + 1,
         conversation_id |-> conv.id,
         sender          |-> sender,
         is_anonymous    |-> IF effective_anonymous THEN 1 ELSE 0,
         anon_name       |-> IF effective_anonymous THEN anon_name ELSE None,
         revealed        |-> 0]

\* send_db_message(conversation_id, sender, content, is_anonymous, anon_name):
\* raises ValueError when the conversation is missing, else inserts a row.
send_db_message(conversation_id, sender, is_anonymous, anon_name) ==
    /\ db_call' = [conversation_id |-> conversation_id, sender |-> sender,
                   is_anonymous |-> is_anonymous,
                   outcome |-> IF conversation_id \in ConversationIds
                               THEN "inserted" ELSE "ValueError"]
    /\ messages_db' =
          IF conversation_id \in ConversationIds
          THEN Append(messages_db,
                      DbRow(ConversationRow(conversation_id), sender,
                            is_anonymous, anon_name))
          ELSE messages_db

\* The viewer of session s.
ViewerOf(s) == user_info[s].username

\* main renders the conversation open_conversation names, with its messages
\* and send box: the view is 'conversations', render_conversations found a
\* conversation of the viewer, open_conversation is set and its row exists.
ConversationShown(s) ==
    /\ authenticated[s]
    /\ current_view[s] = "conversations"
    /\ get_user_conversations(ViewerOf(s)) # {}
    /\ open_conversation[s] # 0
    /\ open_conversation[s] \in ConversationIds

\* Start Conversation on the profile the session views.
StartConversation(s) ==
    /\ authenticated[s]
    /\ current_view[s] = "profile"
    /\ profile_view_user[s] \in DOMAIN users
    /\ ConvSelect(s, ViewerOf(s), profile_view_user[s])

\* Open on a row of the viewer's conversation list.
OpenConversation(s, conv_id) ==
    /\ authenticated[s]
    /\ cpc[s] = "idle"
    /\ spc[s] = "idle"
    /\ current_view[s] = "conversations"
    /\ \E conv \in get_user_conversations(ViewerOf(s)) : conv.id = conv_id
    /\ open_conversation' = [open_conversation EXCEPT ![s] = conv_id]
    /\ UNCHANGED <<pwhash, authenticated, user_info, login_form, current_view,
                   profile_view_user, messages_db, db_call>>
    /\ UNCHANGED nonChatVars

\* Send in the conversation view, with the Send anonymously box as send_anon.
ConvSend(s, send_anon) ==
    /\ cpc[s] = "idle"
    /\ spc[s] = "idle"
    /\ ConversationShown(s)
    /\ Len(messages_db) < MaxDbRows
    /\ send_db_message(open_conversation[s], ViewerOf(s),
                       IF send_anon THEN RetTrue ELSE RetFalse,
                       IF send_anon THEN AnonName(ViewerOf(s)) ELSE None)
    /\ UNCHANGED <<pwhash, authenticated, user_info, login_form, current_view,
                   profile_view_user, open_conversation>>
    /\ UNCHANGED nonChatVars

\* kim and sam follow each other, and so do ann and kim.
ChatFollows == {<<"kim", "sam">>, <<"sam", "kim">>, <<"ann", "kim">>, <<"kim", "ann">>}

ChatUsersInit ==
    /\ users = NotifUsers
    /\ msgfile = <<>>
    /\ nextId = 1
    /\ nops = 0
    /\ spc = [s \in Sessions |-> "idle"]
    /\ sop = [s \in Sessions |-> NoOp]
    /\ snap = [s \in Sessions |-> <<>>]
    /\ ret = None
    /\ author = <<>>
    /\ acked = {}
    /\ removed = {}
    /\ revealed = [u \in Accounts |-> {}]
    /\ notifs = [u \in Accounts |-> <<>>]
    /\ notified = {}

ChatFollowsInit ==
    /\ conversations = <<>>
    /\ nextConv = 1
    /\ cpc = [s \in Sessions |-> "idle"]
    /\ cargs = [s \in Sessions |-> NoCall]
    /\ creturns = {}
    /\ follows = ChatFollows

(***************************************************************************)
(* The home page of a role and the buttons of its message cards            *)
(***************************************************************************)
\* main's dispatch of the 'home' view on the role of user_info.
HomePage(role) ==
    CASE role = "student"     -> "student_feed"
      [] role = "teacher"     -> "teacher_feed"
      [] role = "senator"     -> "senator_feed"
      [] role = "admin"       -> "admin_feed"
      [] role = "super_admin" -> "super_admin_feed"
      [] OTHER                -> None

\* The buttons a page renders with the card of message m for the viewer:
\* render_message_card's Delete for the owner and the super admin, and the
\* Flag button super_admin_interface adds under a card not yet flagged.
CardButtons(page, m, user_id, role) ==
    (IF page # None /\ MayDelete(m, user_id, role) THEN {"Delete"} ELSE {})
        \cup (IF page = "super_admin_interface" /\ ~m.flagged
              THEN {"Flag"} ELSE {})

\* A st.text_input in the script run that creates it: its value is the
\* default, the empty string.
FreshTextInput == ""

\* flag_message(message_id, reason) on the loaded file.
flag_message(data, message_id, reason) ==
    IF IndexOf(data, message_id) # 0
    THEN [data EXCEPT ![IndexOf(data, message_id)] =
            [@ EXCEPT !.flagged = TRUE, !.flag_reason = reason]]
    ELSE data

\* The script run of a click on Flag: the reason input is created inside the
\* button's branch, and flag_message runs if its value is not empty.
FlagClicked(s, mid) ==
    LET reason == FreshTextInput
    IN  /\ msgfile' = IF reason # "" THEN flag_message(msgfile, mid, reason)
                                     ELSE msgfile
        /\ UNCHANGED <<users, nextId, nops, spc, sop, snap, ret, author, acked,
                       removed, revealed, notifs, notified>>
        /\ UNCHANGED nonJsonVars

\* A click on a button of a message card of the home page.
CardClick(s, mid, button) ==
    /\ authenticated[s]
    /\ cpc[s] = "idle"
    /\ spc[s] = "idle"
    /\ current_view[s] = "home"
    /\ ViewerOf(s) \in DOMAIN users
    /\ \E m \in Range(msgfile) :
          /\ m.id = mid
          /\ button \in CardButtons(HomePage(user_info[s].role), m,
                                    UserId(ViewerOf(s)), user_info[s].role)
    /\ IF button = "Delete"
       THEN BeginDelete(s, ViewerOf(s), mid)
       ELSE FlagClicked(s, mid)

\* A super admin is logged in and looks at the home page.
AdminLoggedIn ==
    /\ pwhash = [u \in Accounts |-> hash_password(PasswordOf(u))]
    /\ authenticated = [s \in Sessions |-> s = Browser]
    /\ user_info = [s \in Sessions |->
          IF s = Browser
          THEN [username |-> SuperAdmin, role |-> "super_admin",
                name |-> "Super Administrator"]
          ELSE NoUser]
    /\ login_form = [s \in Sessions |->
          IF s = Browser
          THEN [username |-> SuperAdmin, password |-> "admin123"]
          ELSE NoForm]
    /\ current_view = [s \in Sessions |-> "home"]
    /\ profile_view_user = [s \in Sessions |-> None]
    /\ open_conversation = [s \in Sessions |-> 0]
    /\ messages_db = <<>>
    /\ db_call = NoDbCall

\* messages.json holds a post by ann and a post by kim.
AdminMessagesInit ==
    /\ users = NotifUsers
    /\ \E a \in BOOLEAN, b \in BOOLEAN, r \in {"all_school", "senate"} :
          msgfile = <<NewMessage("ann", "all_school", a, 1),
                      NewMessage("kim", r, b, 2)>>
    /\ nextId = 3
    /\ nops = 0
    /\ spc = [s \in Sessions |-> "idle"]
    /\ sop = [s \in Sessions |-> NoOp]
    /\ snap = [s \in Sessions |-> <<>>]
    /\ ret = None
    /\ author = (1 :> "ann") @@ (2 :> "kim")
    /\ acked = {1, 2}
    /\ removed = {}
    /\ revealed = [u \in Accounts |-> {}]
    /\ notifs = [u \in Accounts |-> <<>>]
    /\ notified = {}

AdminNext ==
    \/ \E p \in {"admin123", "pw-kim"} : Login(Browser, SuperAdmin, p)
    \/ Logout(Browser)
    \/ \E v \in NavViews : Navigate(Browser, v)
    \/ \E mid \in 1..2, b \in {"Delete", "Flag"} : CardClick(Browser, mid, b)
    \/ FinishOp(Browser)

\* A row create_or_get_conversation(user_a, user_b, anon_by_default) inserts.
NewConversation(id, user_a, user_b, anon_by_default) ==
    [id |-> id, user_a |-> _ensure_normalized_conversation(user_a, user_b)[1],
     user_b |-> _ensure_normalized_conversation(user_a, user_b)[2],
     anon_by_default |-> IF anon_by_default THEN 1 ELSE 0]

\* The conversations table of the send_db_message calls: one conversation of
\* two students and one of a student and a teacher, each created with
\* anon_by_default True or False.
DbConversationsInit ==
    /\ \E f1 \in BOOLEAN, f2 \in BOOLEAN :
          conversations = <<NewConversation(1, "kim", "ann", f1),
                            NewConversation(2, "kim", "sam", f2)>>
    /\ nextConv = 3
    /\ cpc = [s \in Sessions |-> "idle"]
    /\ cargs = [s \in Sessions |-> NoCall]
    /\ creturns = {}
    /\ follows = ChatFollows

\* A call send_db_message(conversation_id, sender, content, is_anonymous,
\* anon_name); is_anonymous is None, True or False.
CallSendDbMessage(conversation_id, sender, is_anonymous, anon_name) ==
    /\ conversation_id \in ConversationIds => Len(messages_db) < MaxDbRows
    /\ send_db_message(conversation_id, sender, is_anonymous, anon_name)
    /\ UNCHANGED <<pwhash, authenticated, user_info, login_form, current_view,
                   profile_view_user, open_conversation>>
    /\ UNCHANGED nonChatVars

DbNext ==
    \E c \in 1..3, u \in {"ann", "kim", "sam"},
       a \in {None, RetTrue, RetFalse}, n \in {None, "ANON"} :
        CallSendDbMessage(c, u, a, n)

ChatNext ==
    \/ \E u \in LoginNames, p \in Passwords : Login(Browser, u, p)
    \/ Logout(Browser)
    \/ \E v \in NavViews : Navigate(Browser, v)
    \/ \E u \in Accounts : ViewProfile(Browser, u)
    \/ StartConversation(Browser)
    \/ ConvFinish(Browser)
    \/ \E c \in 1..MaxConvRows : OpenConversation(Browser, c)
    \/ \E b \in BOOLEAN : ConvSend(Browser, b)

\* Session s runs the INSERT of its create_or_get_conversation call in this step.
Inserts(s) ==
    /\ cpc[s] = "selected" /\ cpc'[s] = "idle"
    /\ Len(conversations') = Len(conversations) + 1

C10_OneRowPerPair ==
    /\ \A i, j \in 1..Len(conversations) :
          i # j => {conversations[i].user_a, conversations[i].user_b}
                     # {conversations[j].user_a, conversations[j].user_b}
    /\ \A r1, r2 \in creturns :
          {r1.ua, r1.ub} = {r2.ua, r2.ub} => r1.id = r2.id

\* The participants of the conversation with this id.
Participants(conv_id) ==
    {ConversationRow(conv_id).user_a, ConversationRow(conv_id).user_b}

\* C17: a logged-in user is shown a conversation's messages and send box only
\* if the user is the conversation's user_a or user_b, also after logins,
\* logouts and logins as another user in one browser session.
C17_OnlyParticipantsSee ==
    \A s \in Sessions :
        ConversationShown(s) => ViewerOf(s) \in Participants(open_conversation[s])

\* C18: the sender of every messages_db row is user_a or user_b of the row's
\* conversation.
C18_SenderIsParticipant ==
    \A i \in 1..Len(messages_db) :
        messages_db[i].sender \in Participants(messages_db[i].conversation_id)

\* C19: a session becomes authenticated only in a login step whose username
\* is in users.json with a stored hash equal to the hash of the password
\* entered, and then holds that user's info; a login step with other
\* credentials leaves the session unauthenticated; a step that ends the
\* authentication clears user_info; an authenticated session has a user_info.
C19_LoginOnlyWithPassword ==
    [][\A s \in Sessions :
        /\ (~authenticated[s] /\ authenticated'[s]) =>
              /\ login_form'[s].username \in DOMAIN users
              /\ pwhash[login_form'[s].username]
                    = hash_password(login_form'[s].password)
              /\ user_info'[s].username = login_form'[s].username
        /\ (/\ ~authenticated[s]
            /\ login_form'[s] # login_form[s]
            /\ ~(/\ login_form'[s].username \in DOMAIN users
                 /\ pwhash[login_form'[s].username]
                       = hash_password(login_form'[s].password)))
              => ~authenticated'[s] /\ user_info'[s] = NoUser
        /\ (authenticated[s] /\ ~authenticated'[s]) => user_info'[s] = NoUser
        /\ authenticated'[s] => user_info'[s] # NoUser]_vars

\* kim is logged in after a failed attempt on the account and a logout.
C19_Witness ==
    /\ authenticated[Browser]
    /\ user_info[Browser].username = "kim"
    /\ login_form[Browser] = [username |-> "kim", password |-> "pw-kim"]
    /\ current_view[Browser] = "people"

\* C15: a send_db_message call with is_anonymous = None stores the row with
\* is_anonymous equal to the conversation's anon_by_default, whatever the
\* roles of the sender and the other participant; a call for a conversation
\* id that does not exist raises ValueError and inserts no row; a stored
\* anon_name is not None only in a row whose is_anonymous is 1.
C15_DefaultFromConversation ==
    [][(db_call' # db_call \/ messages_db' # messages_db) =>
        /\ (db_call'.conversation_id \notin ConversationIds) =>
              db_call'.outcome = "ValueError" /\ messages_db' = messages_db
        /\ (db_call'.conversation_id \in ConversationIds) =>
              /\ db_call'.outcome = "inserted"
              /\ Len(messages_db') = Len(messages_db) + 1
              /\ db_call'.is_anonymous = None =>
                    messages_db'[Len(messages_db')].is_anonymous
                        = ConversationRow(db_call'.conversation_id).anon_by_default
        /\ \A i \in 1..Len(messages_db') :
              messages_db'[i].anon_name # None => messages_db'[i].is_anonymous = 1]_vars

\* Some message of messages.json is flagged with a reason.
SomeFlagged ==
    \E i \in 1..Len(msgfile) : msgfile[i].flagged /\ msgfile[i].flag_reason # ""

\* C16: messages may be flagged by the super admin: from a logged-in super
\* admin session with a message on file, the super admin who keeps logging
\* in, returning to the home page and using the Flag control whenever a page
\* offers it gets a message flagged with the reason entered, and the flagged
\* message stays in messages.json; the only other way out is that every
\* message has been deleted.
C16_FlagReachable ==
    (/\ authenticated[Browser]
     /\ user_info[Browser].role = "super_admin"
     /\ msgfile # <<>>)
        ~> (SomeFlagged \/ msgfile = <<>>)

\* C20: whenever no save is in progress, the latest backup of each data file
\* holds the content of the file's last save_json write, and the file itself
\* holds that content too, also after initialize_data restored it; this under
\* any interleaving of save_json calls of different sessions.
C20_BackupIsLastSave ==
    (\A s \in Sessions : bpc[s] = "idle") =>
        \A f \in DataFiles :
            /\ _latest_backup_for(f) = last_saved[f]
            /\ data_files[f] = last_saved[f]

(***************************************************************************)
(* SPECIFICATIONS                                                          *)
(***************************************************************************)
InitGateway == GatewayInit /\ JsonIdle /\ ConvInit /\ SendIdle /\ SortIdle /\ ChatIdle /\ BackupInit
InitJson    == GatewayIdle /\ JsonInit /\ ConvInit /\ SendIdle /\ SortIdle /\ ChatIdle /\ BackupInit
InitConv    == GatewayIdle /\ JsonIdle /\ ConvInit /\ SendIdle /\ SortIdle /\ ChatIdle /\ BackupInit
InitSend    == GatewayIdle /\ SendInit /\ ConvInit /\ SortIdle /\ ChatIdle /\ BackupInit
InitNotif   == GatewayIdle /\ NotifInit /\ ConvInit /\ SendIdle /\ SortIdle /\ ChatIdle /\ BackupInit
InitSort    == GatewayIdle /\ JsonIdle /\ FollowsInit /\ SendIdle /\ SortInit /\ ChatIdle /\ BackupInit
InitChat    == GatewayIdle /\ ChatUsersInit /\ ChatFollowsInit /\ SendIdle /\ SortIdle /\ ChatIdle /\ BackupInit
InitAdmin   == GatewayIdle /\ AdminMessagesInit /\ ChatFollowsInit /\ SendIdle /\ SortIdle /\ AdminLoggedIn /\ BackupInit
InitDb      == GatewayIdle /\ ChatUsersInit /\ DbConversationsInit /\ SendIdle /\ SortIdle /\ ChatIdle /\ BackupInit
InitBackup  == GatewayIdle /\ JsonIdle /\ ConvInit /\ SendIdle /\ SortIdle /\ ChatIdle /\ BackupInit

SpecGateway == InitGateway /\ [][GatewayNext]_vars

\* A call of complete runs on: each attempt returns or raises, each sleep ends.
FairSpecGateway == SpecGateway /\ WF_vars(GatewayNext)

SpecJson == InitJson /\ [][JsonNext]_vars

SpecConv == InitConv /\ [][ConvNext]_vars

SpecSend == InitSend /\ [][SendNext]_vars

SpecNotif == InitNotif /\ [][NotifNext]_vars

SpecChat == InitChat /\ [][ChatNext]_vars

SpecDb == InitDb /\ [][DbNext]_vars

SpecAdmin == InitAdmin /\ [][AdminNext]_vars

\* The super admin keeps using the application: some control is always
\* pressed, and the login, the Home button and a card's Flag button are
\* pressed again and again whenever they are offered again and again.
FairSpecAdmin ==
    /\ SpecAdmin
    /\ WF_vars(AdminNext)
    /\ SF_vars(Login(Browser, SuperAdmin, "admin123"))
    /\ SF_vars(Navigate(Browser, "home"))
    /\ SF_vars(\E mid \in 1..2 : CardClick(Browser, mid, "Flag"))

SpecBackup == InitBackup /\ [][BackupNext]_vars

SpecSort == InitSort /\ [][SortNext]_vars

====
